---- MODULE Spec2Model ----
(***************************************************************************)
(* Model of the configuration loader of src/config.cpp: the config class   *)
(* with its 12 domain pointers, load_from_file, load_from_string and       *)
(* parse_json, on top of a model of the nlohmann::json values and of the   *)
(* accessors the loader calls (contains, at, is_object, value, get).       *)
(***************************************************************************)
EXTENDS Integers, Sequences, FiniteSets, TLC

VARIABLES
    cfg,    \* the 12 domain pointers of the config object
    pre,    \* what they held when the last call began
    last,   \* the last call: operation, input, return value
    loads,  \* number of calls made on the object
    loaded  \* some call on the object has returned success

vars == <<cfg, pre, last, loads, loaded>>

(***************************************************************************)
(* JSON values (nlohmann::json).  A float is the rational num/den.         *)
(***************************************************************************)
JNull == [t |-> "null"]
JBool(b) == [t |-> "boolean", v |-> b]
JInt(n) == [t |-> "number_integer", v |-> n]
JFloat(n, d) == [t |-> "number_float", v |-> [num |-> n, den |-> d]]
JStr(s) == [t |-> "string", v |-> s]
JArr(s) == [t |-> "array", v |-> s]
JObj(f) == [t |-> "object", v |-> f]

EmptyObject == JObj([k \in {} |-> JNull])

(***************************************************************************)
(* Outcome of an expression that may throw: a value, or the exception.     *)
(***************************************************************************)
Ok(x) == [ok |-> TRUE, v |-> x]
Throw(e) == [ok |-> FALSE, what |-> e]

(***************************************************************************)
(* Accessors of json used by the loader.                                   *)
(***************************************************************************)
is_object(j) == j.t = "object"

\* contains() is false on every value that is not an object
contains(j, key) == is_object(j) /\ key \in DOMAIN j.v

at(j, key) == j.v[key]

\* static_cast<int>(double): truncation toward zero
static_cast_int(d) ==
    IF d.num >= 0 THEN d.num \div d.den ELSE -((-d.num) \div d.den)

\* a conversion that gives the empty string for what is not a string
get_string_lenient(j) == Ok(IF j.t = "string" THEN j.v ELSE "")

get_string(j) == IF j.t = "string" THEN Ok(j.v) ELSE Throw("type_error.302")

\* a conversion that gives false for what is not a boolean
get_bool_lenient(j) == Ok(IF j.t = "boolean" THEN j.v ELSE FALSE)

get_bool(j) == IF j.t = "boolean" THEN Ok(j.v) ELSE Throw("type_error.302")

\* get<int>: numbers and booleans convert, everything else throws (the
\* integers of the documents considered all fit an int)
get_int(j) ==
    CASE j.t = "number_integer" -> Ok(j.v)
      [] j.t = "number_float" -> Ok(static_cast_int(j.v))
      [] j.t = "boolean" -> Ok(IF j.v THEN 1 ELSE 0)
      [] OTHER -> Throw("type_error.302")

\* get<double>: numbers only
get_double(j) ==
    CASE j.t = "number_integer" -> Ok([num |-> j.v, den |-> 1])
      [] j.t = "number_float" -> Ok(j.v)
      [] OTHER -> Throw("type_error.302")

get_vector_string(j) ==
    IF j.t # "array" THEN Throw("type_error.302")
    ELSE IF \E i \in DOMAIN j.v : ~get_string(j.v[i]).ok
         THEN Throw("type_error.302")
         ELSE Ok([i \in DOMAIN j.v |-> get_string(j.v[i]).v])

get_vector_int(j) ==
    IF j.t # "array" THEN Throw("type_error.302")
    ELSE IF \E i \in DOMAIN j.v : ~get_int(j.v[i]).ok
         THEN Throw("type_error.302")
         ELSE Ok([i \in DOMAIN j.v |-> get_int(j.v[i]).v])

\* get<std::map<std::string,std::string>>
get_map_string(j) ==
    IF j.t # "object" THEN Throw("type_error.302")
    ELSE IF \E k \in DOMAIN j.v : ~get_string(j.v[k]).ok
         THEN Throw("type_error.302")
         ELSE Ok([k \in DOMAIN j.v |-> get_string(j.v[k]).v])

\* value(key, default): only objects have it; a key that is present is
\* converted to the type of the default, a key that is absent gives it.
\* get<ValueType>, ValueType being the type of the default of value()
get_as(type, j) ==
    CASE type = "string" -> get_string(j)
      [] type = "bool" -> get_bool(j)
      [] type = "int" -> get_int(j)
      [] type = "double" -> get_double(j)
      [] type = "vector_string" -> get_vector_string(j)
      [] type = "vector_int" -> get_vector_int(j)

value(j, key, default, type) ==
    IF ~is_object(j) THEN Throw("type_error.306")
    ELSE IF key \in DOMAIN j.v THEN get_as(type, j.v[key])
    ELSE Ok(default)

Field(type, default) == [type |-> type, default |-> default]

\* a run of  x->name = o.value("name", default);  statements, one for
\* each field of the table.  The statements are independent of each
\* other, and which of them throws first is not observable, so they are
\* taken together: the new struct, or an exception one of them throws
assign_fields(o, fields) ==
    LET r == [n \in DOMAIN fields |->
                 value(o, n, fields[n].default, fields[n].type)]
    IN  IF \A n \in DOMAIN fields : r[n].ok
        THEN Ok([n \in DOMAIN fields |-> r[n].v])
        ELSE r[CHOOSE n \in DOMAIN fields : ~r[n].ok]

(***************************************************************************)
(* The domain structs and their mapping from the document, one per block   *)
(* of parse_json.  A mapper returns the new struct or the exception.       *)
(***************************************************************************)

\* a default that does not chain: the empty string, as for the other paths
log_root_default_empty(export_root) == ""

\* default of log_root: the export_root this parse has just resolved
log_root_default(export_root) == export_root

\* the statements run in order, the first exception ends them
map_data_paths(p) ==
    LET d == value(p, "derivatives_root", "", "string")
        s == value(p, "spot_root", "", "string")
        e == value(p, "export_root", "", "string")
        l == value(p, "log_root", log_root_default(e.v), "string")
    IN  IF ~d.ok THEN d ELSE IF ~s.ok THEN s ELSE IF ~e.ok THEN e
        ELSE IF ~l.ok THEN l
        ELSE Ok([derivatives_root |-> d.v, spot_root |-> s.v,
                 export_root |-> e.v, log_root |-> l.v])

data_scope_fields ==
    [underlyings |-> Field("vector_string", <<>>),
     date_from |-> Field("string", ""),
     date_to |-> Field("string", ""),
     instrument_classes |-> Field("vector_string", <<>>),
     expiry_limit |-> Field("int", 0)]

map_data_scope(e) == assign_fields(e, data_scope_fields)

\* the loop without its filter: every entry is converted
registry_keeps_all(entry) == TRUE

\* an entry of the registry is kept when its value is an object
registry_keeps(entry) == is_object(entry)

\* the loop over the entries of the registry: the first kept entry that
\* does not convert throws, the others are inserted under their own key
registry_mappings(m) ==
    LET kept == {k \in DOMAIN m.v : registry_keeps(m.v[k])}
    IN  IF \E k \in kept : ~get_map_string(m.v[k]).ok
        THEN Throw("type_error.302")
        ELSE Ok([k \in kept |-> get_map_string(m.v[k]).v])

map_symbol_registry(m) ==
    IF is_object(m)
    THEN LET mp == registry_mappings(m)
         IN  IF mp.ok THEN Ok([mappings |-> mp.v]) ELSE mp
    ELSE Ok([mappings |-> [k \in {} |-> <<>>]])

symbol_matching_fields ==
    [options_mode |-> Field("string", ""),
     futures_mode |-> Field("string", ""),
     index_mode |-> Field("string", ""),
     is_case_sensitive |-> Field("bool", FALSE),
     trim_whitespace |-> Field("bool", FALSE)]

map_symbol_matching(mm) == assign_fields(mm, symbol_matching_fields)

preprocessing_fields ==
    [forward_fill |-> Field("bool", FALSE),
     backward_fill |-> Field("bool", FALSE),
     ignore_empty_files |-> Field("bool", FALSE),
     merge_daily_outputs |-> Field("bool", FALSE)]

map_preprocessing(pr) == assign_fields(pr, preprocessing_fields)

acceleration_fields ==
    [enable_gpu |-> Field("bool", FALSE)]

map_acceleration(gr) == assign_fields(gr, acceleration_fields)

logger_fields ==
    [stdout_level |-> Field("string", "info"),
     file_log_level |-> Field("string", "info"),
     log_template |-> Field("string", ""),
     timestamp_format |-> Field("string", "")]

map_logger(lr) == assign_fields(lr, logger_fields)

\* the two fields read with an empty default, as the other strings are
export_fields_no_defaults ==
    [file_format |-> Field("string", ""),
     codec |-> Field("string", "")]

export_fields ==
    [file_format |-> Field("string", "parquet"),
     codec |-> Field("string", "none")]

map_export(orr) == assign_fields(orr, export_fields)

stream_logging_fields ==
    [is_enabled |-> Field("bool", FALSE),
     stream_log_root |-> Field("string", ""),
     output_formats |-> Field("vector_string", <<>>)]

map_stream_logging(dl) == assign_fields(dl, stream_logging_fields)

\* the fields of struct execution with their declared defaults
execution_fields ==
    [io_chunk_size |-> Field("int", 0),
     low_memory_mode |-> Field("bool", FALSE),
     enable_parallelism |-> Field("bool", TRUE),
     global_worker_cap |-> Field("int", 10),
     parallelize_days |-> Field("bool", TRUE),
     day_worker_cap |-> Field("int", 10),
     batch_days_mode |-> Field("bool", TRUE),
     days_per_batch |-> Field("int", 5),
     ram_limited_day_workers |-> Field("int", 5),
     parallelize_assets |-> Field("bool", FALSE),
     asset_worker_cap |-> Field("int", 10),
     total_worker_cap |-> Field("int", 10),
     parallel_file_io |-> Field("bool", TRUE),
     file_worker_cap |-> Field("int", 10),
     zip_streaming_mode |-> Field("bool", FALSE),
     process_pool_csv |-> Field("bool", TRUE),
     parallel_fill_engine |-> Field("bool", TRUE),
     multiprocess_fill_engine |-> Field("bool", TRUE),
     fill_worker_cap |-> Field("int", 10),
     fill_batch_size |-> Field("int", 50),
     auto_scale_fill_workers |-> Field("bool", TRUE),
     parallel_monthly_engine |-> Field("bool", TRUE),
     monthly_worker_cap |-> Field("int", 10),
     parallel_futures_engine |-> Field("bool", TRUE),
     futures_worker_cap |-> Field("int", 10),
     parallel_greeks_engine |-> Field("bool", TRUE),
     greeks_worker_cap |-> Field("int", 10),
     greeks_block_size |-> Field("int", 100000),
     transform_worker_cap |-> Field("int", 10),
     transform_block_size |-> Field("int", 1000),
     parallel_tte_engine |-> Field("bool", TRUE),
     tte_worker_cap |-> Field("int", 10),
     tte_block_size |-> Field("int", 500000),
     parallel_synthetic_futures |-> Field("bool", TRUE),
     syn_fut_worker_cap |-> Field("int", 10),
     syn_fut_block_size |-> Field("int", 500000),
     use_memory_controller |-> Field("bool", FALSE),
     disable_memory_controller |-> Field("bool", TRUE),
     cache_monthly_expiries |-> Field("bool", TRUE),
     omit_spot_iv |-> Field("bool", FALSE),
     batch_scaling_factor |-> Field("int", 4)]

\* a struct without member initialisers: value-initialised to zero
new_execution_zeroed ==
    [n \in DOMAIN execution_fields |->
        IF execution_fields[n].type = "bool" THEN FALSE ELSE 0]

\* new execution(): every field at its declared default
new_execution ==
    [n \in DOMAIN execution_fields |-> execution_fields[n].default]

\* the default of each value() call is the field of the new struct
map_execution(ar) ==
    assign_fields(ar, [n \in DOMAIN execution_fields |->
                          Field(execution_fields[n].type, new_execution[n])])

post_compute_fields ==
    [compute_synthetic_futures |-> Field("bool", FALSE),
     recompute_theoretical_greeks |-> Field("bool", FALSE)]

map_post_compute(pr) == assign_fields(pr, post_compute_fields)

\* market_timing of a value-initialised market_constants: zeroed
new_marketTiming ==
    [session_open |-> "", session_close |-> "",
     minutes_per_session |-> 0, sessions_per_year |-> 0]

\* the two keys looked up the other way round: the legacy key first
minutes_per_session_legacy_first(mt) ==
    IF contains(mt, "minutes_per_day")
    THEN value(mt, "minutes_per_day", 0, "int")
    ELSE LET d == value(mt, "minutes_per_session", [num |-> 0, den |-> 1], "double")
         IN  IF d.ok THEN Ok(static_cast_int(d.v)) ELSE d

\* minutes_per_session, with its legacy key minutes_per_day
minutes_per_session(mt) ==
    IF contains(mt, "minutes_per_session")
    THEN LET d == value(mt, "minutes_per_session", [num |-> 0, den |-> 1], "double")
         IN  IF d.ok THEN Ok(static_cast_int(d.v)) ELSE d
    ELSE value(mt, "minutes_per_day", 0, "int")

\* sessions_per_year: the default argument, itself a value() call on the
\* legacy key, is evaluated before the call that uses it
sessions_per_year(mt) ==
    LET dflt == value(mt, "trading_days_per_year", 252, "int")
    IN  IF dflt.ok THEN value(mt, "sessions_per_year", dflt.v, "int") ELSE dflt

map_marketTiming(mt) ==
    LET so == value(mt, "session_open", "", "string")
        sc == value(mt, "session_close", "", "string")
        mps == minutes_per_session(mt)
        spy == sessions_per_year(mt)
    IN  IF ~so.ok THEN so ELSE IF ~sc.ok THEN sc ELSE IF ~mps.ok THEN mps
        ELSE IF ~spy.ok THEN spy
        ELSE Ok([session_open |-> so.v, session_close |-> sc.v,
                 minutes_per_session |-> mps.v, sessions_per_year |-> spy.v])

\* the trading_schedule block: run only on an object, else the timing
\* stays as the constructor left it
market_timing(cr) ==
    IF contains(cr, "trading_schedule") /\ is_object(at(cr, "trading_schedule"))
    THEN map_marketTiming(at(cr, "trading_schedule"))
    ELSE Ok(new_marketTiming)

\* a month table: filled only from a key that holds an object
month_map(cr, key) ==
    IF contains(cr, key) /\ is_object(at(cr, key))
    THEN get_map_string(at(cr, key))
    ELSE Ok([k \in {} |-> ""])

map_market_constants(cr) ==
    LET vu == value(cr, "valid_underlyings", <<>>, "vector_string")
        se == value(cr, "symbol_exceptions", <<>>, "vector_string")
        ect == value(cr, "expiry_cutoff_time", <<>>, "vector_int")
        cmm == month_map(cr, "calendar_month_map")
        nmm == month_map(cr, "numeric_month_map")
        amm == month_map(cr, "alpha_month_map")
        mt == market_timing(cr)
        eh == value(cr, "exchange_holidays", <<>>, "vector_string")
    IN  IF ~vu.ok THEN vu ELSE IF ~se.ok THEN se ELSE IF ~ect.ok THEN ect
        ELSE IF ~cmm.ok THEN cmm ELSE IF ~nmm.ok THEN nmm
        ELSE IF ~amm.ok THEN amm ELSE IF ~mt.ok THEN mt
        ELSE IF ~eh.ok THEN eh
        ELSE Ok([valid_underlyings |-> vu.v, symbol_exceptions |-> se.v,
                 expiry_cutoff_time |-> ect.v, calendar_month_map |-> cmm.v,
                 numeric_month_map |-> nmm.v, alpha_month_map |-> amm.v,
                 market_timing |-> mt.v, exchange_holidays |-> eh.v])

(***************************************************************************)
(* class config: the 12 domain pointers, and parse_json.                   *)
(***************************************************************************)

\* the top-level keys, in the order parse_json maps them
DomainOrder ==
    <<"data_paths", "data_scope", "symbol_registry", "symbol_matching",
      "preprocessing", "acceleration", "logger", "export", "stream_logging",
      "execution", "post_compute", "market_constants">>

DomainKeys == {DomainOrder[i] : i \in DOMAIN DomainOrder}

\* the member of config each key is stored in
FieldOf ==
    [data_paths |-> "data_paths_config",
     data_scope |-> "data_scope_config",
     symbol_registry |-> "symbol_registry_config",
     symbol_matching |-> "symbol_matching_config",
     preprocessing |-> "preprocessing_config",
     acceleration |-> "acceleration_config",
     logger |-> "logger_config",
     export |-> "export_config_ptr",
     stream_logging |-> "stream_logging_config",
     execution |-> "execution_config",
     post_compute |-> "post_compute_config",
     market_constants |-> "market_constants_config"]

ConfigFields == {FieldOf[k] : k \in DomainKeys}

\* values of a pointer member
nullptr == [p |-> "nullptr"]
indeterminate == [p |-> "indeterminate"]
new(x) == [p |-> "object", obj |-> x]

map_domain(key, v) ==
    CASE key = "data_paths" -> map_data_paths(v)
      [] key = "data_scope" -> map_data_scope(v)
      [] key = "symbol_registry" -> map_symbol_registry(v)
      [] key = "symbol_matching" -> map_symbol_matching(v)
      [] key = "preprocessing" -> map_preprocessing(v)
      [] key = "acceleration" -> map_acceleration(v)
      [] key = "logger" -> map_logger(v)
      [] key = "export" -> map_export(v)
      [] key = "stream_logging" -> map_stream_logging(v)
      [] key = "execution" -> map_execution(v)
      [] key = "post_compute" -> map_post_compute(v)
      [] key = "market_constants" -> map_market_constants(v)

\* the else branch left out: the member keeps what it held
unset_kept(c, f) == c

\* the else branch of a domain block:  this->..._config = nullptr
unset(c, f) == [c EXCEPT ![f] = nullptr]

\* a block that allocates only when the member is not set yet
domain_block_keep_existing(c, j, key) ==
    IF contains(j, key)
    THEN LET x == map_domain(key, at(j, key))
         IN  IF ~x.ok THEN x
             ELSE IF c[FieldOf[key]].p = "object" THEN Ok(c)
             ELSE Ok([c EXCEPT ![FieldOf[key]] = new(x.v)])
    ELSE Ok(unset(c, FieldOf[key]))

\* one  if (j.contains(key)) { ... } else ...  block of parse_json
domain_block(c, j, key) ==
    IF contains(j, key)
    THEN LET x == map_domain(key, at(j, key))
         IN  IF x.ok THEN Ok([c EXCEPT ![FieldOf[key]] = new(x.v)]) ELSE x
    ELSE Ok(unset(c, FieldOf[key]))

\* the blocks from the k-th on, up to  return true  or the catch clause
RECURSIVE parse_from(_, _, _)
parse_from(c, j, k) ==
    IF k > Len(DomainOrder) THEN [ret |-> TRUE, cfg |-> c, failed |-> 0]
    ELSE LET b == domain_block(c, j, DomainOrder[k])
         IN  IF b.ok THEN parse_from(b.v, j, k + 1)
             ELSE [ret |-> FALSE, cfg |-> c, failed |-> k]

\* a catch clause that clears the object before it returns false
parse_json_reset_on_failure(c, j) ==
    LET r == parse_from(c, j, 1)
    IN  IF r.ret THEN r
        ELSE [ret |-> FALSE, cfg |-> [f \in ConfigFields |-> nullptr],
              failed |-> r.failed]

\* a parse that rejects a document with a key it does not know
parse_json_strict(c, j) ==
    IF is_object(j) /\ ~(DOMAIN j.v \subseteq DomainKeys)
    THEN [ret |-> FALSE, cfg |-> c, failed |-> 1]
    ELSE parse_from(c, j, 1)

parse_json(c, j) == parse_from(c, j, 1)

(***************************************************************************)
(* Texts.  A text is the serialisation of a document, either whole or      *)
(* damaged so that it is no longer valid JSON.                             *)
(***************************************************************************)
Text(doc) == [valid |-> TRUE, doc |-> doc]
Malformed(doc) == [valid |-> FALSE, doc |-> doc]

\* a parse that does not throw: damaged text gives a null document
json_parse_nothrow(text) == Ok(IF text.valid THEN text.doc ELSE JNull)

\* json::parse / operator>> : the document, or parse_error
json_parse(text) ==
    IF text.valid THEN Ok(text.doc) ELSE Throw("parse_error.101")

NoCall ==
    [op |-> "none", text |-> Malformed(JNull), is_open |-> FALSE,
     mapped |-> FALSE, ret |-> FALSE, failed |-> 0]

\* calls made on one config object
MaxLoads == 2

(***************************************************************************)
(* The operations.                                                         *)
(***************************************************************************)
\* config() = default leaves the pointers to the initialisation of the
\* object: null in a value-initialised or static object, indeterminate in
\* a default-initialised one such as  config cfg;  in main
FreshConfigs ==
    {[f \in ConfigFields |-> nullptr], [f \in ConfigFields |-> indeterminate]}

Init ==
    /\ cfg \in FreshConfigs
    /\ pre = cfg
    /\ last = NoCall
    /\ loads = 0
    /\ loaded = FALSE

\* a failure path that clears the object
not_mapped_reset(c) ==
    [ret |-> FALSE, cfg |-> [f \in ConfigFields |-> nullptr],
     failed |-> 0, mapped |-> FALSE]

\* the outcome of a call that returns false before parse_json is reached
not_mapped(c) == [ret |-> FALSE, cfg |-> c, failed |-> 0, mapped |-> FALSE]

\* the outcome of a call that reaches parse_json
mapped(r) == [ret |-> r.ret, cfg |-> r.cfg, failed |-> r.failed, mapped |-> TRUE]

\* the body of load_from_string on the object c
string_outcome(c, config_string) ==
    LET j == json_parse(config_string)
    IN  IF j.ok THEN mapped(parse_json(c, j.v)) ELSE not_mapped(c)

\* the body of load_from_file on the object c
file_outcome(c, file) ==
    IF ~file.is_open THEN not_mapped(c)
    ELSE LET j == json_parse(file.text)
         IN  IF j.ok THEN mapped(parse_json(c, j.v)) ELSE not_mapped(c)

load_from_string(config_string) ==
    /\ \E r \in {string_outcome(cfg, config_string)} :
           /\ cfg' = r.cfg
           /\ last' = [op |-> "load_from_string", text |-> config_string,
                       is_open |-> TRUE, mapped |-> r.mapped,
                       ret |-> r.ret, failed |-> r.failed]
           /\ loaded' = (loaded \/ r.ret)
    /\ pre' = cfg
    /\ loads' = loads + 1

\* file: whether file_name opens, and the text it holds
load_from_file(file) ==
    /\ \E r \in {file_outcome(cfg, file)} :
           /\ cfg' = r.cfg
           /\ last' = [op |-> "load_from_file", text |-> file.text,
                       is_open |-> file.is_open, mapped |-> r.mapped,
                       ret |-> r.ret, failed |-> r.failed]
           /\ loaded' = (loaded \/ r.ret)
    /\ pre' = cfg
    /\ loads' = loads + 1

\* the files over a set of texts, and a path that does not open
Files(texts) ==
    {[is_open |-> TRUE, text |-> t] : t \in texts}
        \cup {[is_open |-> FALSE, text |-> Malformed(JNull)]}

\* the calls a caller makes on one config object, over given inputs
Calls(texts, files) ==
    /\ loads < MaxLoads
    /\ \/ \E config_string \in texts : load_from_string(config_string)
       \/ \E file \in files : load_from_file(file)

(***************************************************************************)
(* Documents.                                                              *)
(***************************************************************************)
Obj1(k, v) == JObj([x \in {k} |-> v])

\* a well-typed value of each domain
GoodValue ==
    [data_paths |-> JObj([export_root |-> JStr("/out")]),
     data_scope |-> JObj([underlyings |-> JArr(<<JStr("A")>>),
                          expiry_limit |-> JInt(2)]),
     symbol_registry |-> JObj([A |-> JObj([x |-> JStr("1")]),
                               B |-> JStr("not-an-object")]),
     symbol_matching |-> JObj([options_mode |-> JStr("exact"),
                               is_case_sensitive |-> JBool(TRUE)]),
     preprocessing |-> JObj([forward_fill |-> JBool(TRUE)]),
     acceleration |-> JObj([enable_gpu |-> JBool(TRUE)]),
     logger |-> JObj([stdout_level |-> JStr("debug")]),
     export |-> JObj([codec |-> JStr("snappy")]),
     stream_logging |-> JObj([is_enabled |-> JBool(TRUE),
                              output_formats |-> JArr(<<JStr("jsonl")>>)]),
     execution |-> JObj([global_worker_cap |-> JInt(4),
                         parallelize_assets |-> JBool(TRUE)]),
     post_compute |-> JObj([compute_synthetic_futures |-> JBool(TRUE)]),
     market_constants |->
         JObj([trading_schedule |-> JObj([minutes_per_session |-> JFloat(375, 1)]),
               expiry_cutoff_time |-> JArr(<<JInt(15), JInt(30), JInt(0)>>)])]

\* values of each domain with one field of a type its mapper does not
\* guard: a number, string or boolean where another type is read
BadValues ==
    [data_paths |-> {JObj([spot_root |-> JInt(5)]),
                     JObj([export_root |-> JStr("/out"), log_root |-> JBool(TRUE)])},
     data_scope |-> {JObj([date_from |-> JInt(20240101)]),
                     JObj([underlyings |-> JStr("A")])},
     symbol_registry |-> {JObj([A |-> JObj([x |-> JInt(1)])])},
     symbol_matching |-> {JObj([trim_whitespace |-> JStr("yes")])},
     preprocessing |-> {JObj([forward_fill |-> JInt(1)])},
     acceleration |-> {JObj([enable_gpu |-> JStr("on")])},
     logger |-> {JObj([stdout_level |-> JInt(3)])},
     export |-> {JObj([file_format |-> JInt(7)])},
     stream_logging |-> {JObj([output_formats |-> JArr(<<JInt(1)>>)])},
     execution |-> {JObj([days_per_batch |-> JStr("five")]),
                    JObj([omit_spot_iv |-> JInt(0)])},
     post_compute |-> {JObj([recompute_theoretical_greeks |-> JInt(0)])},
     market_constants |-> {JObj([valid_underlyings |-> JStr("NIFTY")]),
                           JObj([calendar_month_map |-> JObj([JAN |-> JInt(1)])])}]

EmptyDoc == EmptyObject
FullDoc == JObj([k \in DomainKeys |-> GoodValue[k]])

Without(doc, k) == JObj([x \in (DOMAIN doc.v) \ {k} |-> doc.v[x]])
With(doc, k, v) ==
    JObj([x \in (DOMAIN doc.v) \cup {k} |-> IF x = k THEN v ELSE doc.v[x]])

\* a document with two ill-typed domains, with and without the domains
\* mapped before them
TwoBad ==
    With(With(FullDoc, "logger", JObj([stdout_level |-> JInt(3)])),
         "execution", JObj([days_per_batch |-> JStr("five")]))

\* documents with every pattern of one key present or one key missing,
\* documents with ill-typed domains, and a document that is no object
Docs ==
    {EmptyDoc, FullDoc, JArr(<<>>), TwoBad,
     Without(Without(TwoBad, "data_paths"), "preprocessing")}
        \cup {Obj1(k, EmptyObject) : k \in DomainKeys}
        \cup {Without(FullDoc, k) : k \in DomainKeys}
        \cup UNION {{With(FullDoc, k, b) : b \in BadValues[k]} : k \in DomainKeys}

Texts == {Text(d) : d \in Docs} \cup {Malformed(FullDoc), Malformed(EmptyDoc)}

FileTexts ==
    {Text(FullDoc), Text(EmptyDoc), Malformed(FullDoc),
     Text(With(FullDoc, "export", JObj([file_format |-> JInt(7)])))}

Next == Calls(Texts, Files(FileTexts))

Spec == Init /\ [][Next]_vars

(***************************************************************************)
(* Properties of a load.                                                   *)
(***************************************************************************)
Called == last.op # "none"
Doc == last.text.doc
Present(c, k) == c[FieldOf[k]].p = "object"
Absent(c, k) == c[FieldOf[k]] = nullptr

\* C1: after a load that returns success, each of the 12 domain members
\* is absent exactly when its key is absent from the top level of the
\* document, and holds a value exactly when the key is present.
C1_DomainPresence ==
    (Called /\ last.ret) =>
        \A k \in DomainKeys :
            /\ Absent(cfg, k) <=> ~contains(Doc, k)
            /\ Present(cfg, k) <=> contains(Doc, k)

\* a successful load of a document with a key missing and a key present,
\* on an object that held a value for the missing key
C1_Witness ==
    /\ Called /\ last.ret
    /\ \E k \in DomainKeys : ~contains(Doc, k) /\ Present(pre, k)
    /\ \E k \in DomainKeys : contains(Doc, k)

\* C2: when the mapping of a domain fails, no domain of that call is
\* retained: the object holds what it held before the call.
C2_AllOrNothing ==
    (Called /\ last.mapped /\ ~last.ret) => cfg = pre

C4_MalformedDomainDiscards ==
    (Called /\ last.mapped
        /\ \E k \in DomainKeys :
              contains(Doc, k) /\ at(Doc, k) \in BadValues[k]) => ~last.ret

\* a document with one ill-typed domain, every other domain well typed
C4_Witness ==
    /\ Called /\ last.mapped /\ ~last.ret
    /\ \E k \in DomainKeys :
          /\ contains(Doc, k) /\ at(Doc, k) \in BadValues[k]
          /\ \A o \in DomainKeys \ {k} :
                contains(Doc, o) /\ at(Doc, o) = GoodValue[o]

(***************************************************************************)
(* Domains that hold a value which is not an object.                       *)
(***************************************************************************)
NonObjectValues == {JStr("x"), JInt(1), JArr(<<>>), JNull}

NonObjectDocs ==
    {EmptyDoc, FullDoc}
        \cup UNION {{Obj1(k, v) : v \in NonObjectValues} : k \in DomainKeys}
        \cup {With(FullDoc, k, JStr("x")) : k \in DomainKeys}

NonObjectTexts == {Text(d) : d \in NonObjectDocs}

NonObjectFileTexts == {Text(Obj1("logger", JNull)), Text(Obj1("symbol_registry", JNull))}

NextNonObject == Calls(NonObjectTexts, Files(NonObjectFileTexts))

SpecNonObject == Init /\ [][NextNonObject]_vars

\* some domain of the document holds a non-object, the others are well typed
NonObjectOnly(doc) ==
    /\ is_object(doc)
    /\ \E k \in DomainKeys : contains(doc, k) /\ ~is_object(at(doc, k))
    /\ \A k \in DomainKeys :
          contains(doc, k) =>
              (~is_object(at(doc, k)) \/ at(doc, k) = GoodValue[k])

\* C5: a document in which a domain key holds a value that is not an
\* object (string, number, array, null) is still loaded successfully.
C5_NonObjectDomainLoads ==
    (Called /\ last.mapped /\ NonObjectOnly(Doc)) => last.ret

(***************************************************************************)
(* market_constants: the trading_schedule object and its legacy keys.      *)
(***************************************************************************)
\* an object from the keys that are given a value (None: key left out)
None == [t |-> "none"]
ObjOf(f) == JObj([k \in {x \in DOMAIN f : f[x] # None} |-> f[k]])

MinutesSchedules ==
    {ObjOf([minutes_per_session |-> s, minutes_per_day |-> d]) :
        s \in {None, JFloat(375, 1), JFloat(15, 2), JFloat(-3, 2), JInt(390),
               JStr("375")},
        d \in {None, JInt(375), JInt(360), JStr("bad")}}

SessionsSchedules ==
    {ObjOf([sessions_per_year |-> s, trading_days_per_year |-> d]) :
        s \in {None, JInt(250), JFloat(501, 2), JStr("250")},
        d \in {None, JInt(248), JBool(TRUE), JStr("bad")}}

\* market_constants without a trading_schedule object
NoScheduleValues ==
    {EmptyObject,
     JObj([valid_underlyings |-> JArr(<<JStr("A")>>)])}
        \cup {Obj1("trading_schedule", v) : v \in NonObjectValues}

TimingDocs ==
    {Obj1("market_constants", Obj1("trading_schedule", ts)) :
        ts \in MinutesSchedules \cup SessionsSchedules}
        \cup {Obj1("market_constants", v) : v \in NoScheduleValues}

TimingTexts == {Text(d) : d \in TimingDocs}

TimingFileTexts ==
    {Text(Obj1("market_constants", EmptyObject)),
     Text(Obj1("market_constants", Obj1("trading_schedule",
         JObj([minutes_per_session |-> JFloat(375, 1),
               minutes_per_day |-> JInt(360)]))))}

NextTiming == Calls(TimingTexts, Files(TimingFileTexts))

SpecTiming == Init /\ [][NextTiming]_vars

HasSchedule(doc) ==
    /\ contains(doc, "market_constants")
    /\ contains(at(doc, "market_constants"), "trading_schedule")
    /\ is_object(at(at(doc, "market_constants"), "trading_schedule"))

Schedule(doc) == at(at(doc, "market_constants"), "trading_schedule")

Timing == cfg.market_constants_config.obj.market_timing

IsNumber(j) == j.t \in {"number_integer", "number_float"}

Abs(n) == IF n >= 0 THEN n ELSE -n

\* the integer part of a JSON number: the integer nearest to it among
\* those that are not further from zero
IntegerPart(j) ==
    IF j.t = "number_integer" THEN j.v
    ELSE CHOOSE q \in (-Abs(j.v.num))..Abs(j.v.num) :
            /\ Abs(q) * j.v.den <= Abs(j.v.num)
            /\ Abs(j.v.num) < (Abs(q) + 1) * j.v.den
            /\ (q # 0 => (q > 0 <=> j.v.num > 0))

\* the same call on the same object, given another document
SameOutcomeAs(doc) ==
    LET r == IF last.op = "load_from_string"
             THEN string_outcome(pre, Text(doc))
             ELSE file_outcome(pre, [is_open |-> TRUE, text |-> Text(doc)])
    IN  r.ret = last.ret /\ r.cfg = cfg

\* C6: with key minutes_per_session present the field is its value
\* truncated to an integer, and minutes_per_day has no influence on the
\* outcome; otherwise the field is the value of the integer key
\* minutes_per_day, or 0 when that key is absent too.
C6_MinutesAliasPrecedence ==
    (Called /\ last.mapped /\ HasSchedule(Doc)
        /\ Schedule(Doc) \in MinutesSchedules) =>
        LET ts == Schedule(Doc)
        IN  IF contains(ts, "minutes_per_session")
            THEN /\ IsNumber(at(ts, "minutes_per_session")) =>
                       /\ last.ret
                       /\ Timing.minutes_per_session =
                              IntegerPart(at(ts, "minutes_per_session"))
                 /\ SameOutcomeAs(Obj1("market_constants",
                        Obj1("trading_schedule",
                             Without(ts, "minutes_per_day"))))
            ELSE IF contains(ts, "minutes_per_day")
            THEN at(ts, "minutes_per_day").t = "number_integer" =>
                    /\ last.ret
                    /\ Timing.minutes_per_session = at(ts, "minutes_per_day").v
            ELSE last.ret /\ Timing.minutes_per_session = 0

\* both keys present with different numbers, the new key a negative
\* fraction: the field is its integer part
C6_Witness ==
    /\ Called /\ last.ret /\ HasSchedule(Doc)
    /\ contains(Schedule(Doc), "minutes_per_session")
    /\ contains(Schedule(Doc), "minutes_per_day")
    /\ at(Schedule(Doc), "minutes_per_session") = JFloat(-3, 2)
    /\ at(Schedule(Doc), "minutes_per_day") = JInt(360)
    /\ Timing.minutes_per_session = -1

\* C7: the field sessions_per_year is the value of key sessions_per_year
\* when that key is present, whatever trading_days_per_year holds;
\* otherwise the value of trading_days_per_year when present; otherwise 252.
C7_SessionsAliasChain ==
    (Called /\ last.mapped /\ HasSchedule(Doc)
        /\ Schedule(Doc) \in SessionsSchedules) =>
        LET ts == Schedule(Doc)
        IN  IF contains(ts, "sessions_per_year")
            THEN at(ts, "sessions_per_year").t = "number_integer" =>
                    /\ last.ret
                    /\ Timing.sessions_per_year = at(ts, "sessions_per_year").v
            ELSE IF contains(ts, "trading_days_per_year")
            THEN at(ts, "trading_days_per_year").t = "number_integer" =>
                    /\ last.ret
                    /\ Timing.sessions_per_year = at(ts, "trading_days_per_year").v
            ELSE last.ret /\ Timing.sessions_per_year = 252

\* C8: a present market_constants without a trading_schedule object has
\* its timing fields at their defaults: minutes_per_session = 0 and
\* sessions_per_year = 252, the session times empty.
C8_TimingDefaults ==
    (Called /\ last.ret /\ contains(Doc, "market_constants")
        /\ ~HasSchedule(Doc)) =>
        /\ Timing.session_open = "" /\ Timing.session_close = ""
        /\ Timing.minutes_per_session = 0
        /\ Timing.sessions_per_year = 252

(***************************************************************************)
(* symbol_registry: entries that are objects and entries that are not.     *)
(***************************************************************************)
RegistryObjects ==
    {ObjOf([A |-> a, B |-> b]) :
        a \in {None, JObj([x |-> JStr("1")]), EmptyObject,
               JObj([options_symbol |-> JStr("OPT"), futures_symbol |-> JStr("FUT")]),
               JStr("not-an-object"), JInt(3), JNull,
               JObj([x |-> JInt(1)])},
        b \in {None, JObj([y |-> JStr("2")]), JStr("not-an-object"),
               JArr(<<JStr("z")>>)}}

RegistryDocs ==
    {Obj1("symbol_registry", r) : r \in RegistryObjects}
        \cup {Obj1("symbol_registry", JStr("x")), EmptyDoc}

RegistryTexts == {Text(d) : d \in RegistryDocs}

RegistryFileTexts ==
    {Text(Obj1("symbol_registry",
         JObj([A |-> JObj([x |-> JStr("1")]), B |-> JStr("not-an-object")])))}

NextRegistry == Calls(RegistryTexts, Files(RegistryFileTexts))

SpecRegistry == Init /\ [][NextRegistry]_vars

HasRegistry(doc) ==
    contains(doc, "symbol_registry") /\ is_object(at(doc, "symbol_registry"))

\* the entries of a registry whose value is an object
ObjectEntries(reg) == {k \in DOMAIN reg.v : reg.v[k].t = "object"}

\* an object that maps symbol types to symbols: every value a string
IsSymbolMap(j) == \A x \in DOMAIN j.v : j.v[x].t = "string"

\* C9: the mapping of a symbol_registry object holds exactly the entries
\* whose value is an object, each decoded under its own key; the entries
\* whose value is not an object are skipped and do not fail the load.
C9_RegistryFiltering ==
    (Called /\ last.mapped /\ HasRegistry(Doc)) =>
        LET reg == at(Doc, "symbol_registry")
            kept == ObjectEntries(reg)
        IN  (\A k \in kept : IsSymbolMap(reg.v[k])) =>
                /\ last.ret
                /\ DOMAIN cfg.symbol_registry_config.obj.mappings = kept
                /\ \A k \in kept :
                      cfg.symbol_registry_config.obj.mappings[k] =
                          [x \in DOMAIN reg.v[k].v |-> reg.v[k].v[x].v]

\* the registry {"A": {"x": "1"}, "B": "not-an-object"}: only A is kept
C9_Witness ==
    /\ Called /\ last.ret /\ HasRegistry(Doc)
    /\ at(Doc, "symbol_registry") =
           JObj([A |-> JObj([x |-> JStr("1")]), B |-> JStr("not-an-object")])
    /\ DOMAIN cfg.symbol_registry_config.obj.mappings = {"A"}
    /\ cfg.symbol_registry_config.obj.mappings["A"] = [x |-> "1"]

(***************************************************************************)
(* data_paths: the default of log_root.                                    *)
(***************************************************************************)
PathsObjects ==
    {ObjOf([derivatives_root |-> d, export_root |-> e, log_root |-> l]) :
        d \in {None, JStr("/nfo")},
        e \in {None, JStr("/out"), JStr("/data"), JInt(1)},
        l \in {None, JStr("/log"), JStr(""), JNull}}

PathsDocs == {Obj1("data_paths", p) : p \in PathsObjects} \cup {EmptyDoc}

PathsTexts == {Text(d) : d \in PathsDocs}

PathsFileTexts ==
    {Text(Obj1("data_paths", JObj([export_root |-> JStr("/out")])))}

NextPaths == Calls(PathsTexts, Files(PathsFileTexts))

SpecPaths == Init /\ [][NextPaths]_vars

\* the string under a key, or the empty string when the key is absent
StringOr(o, key) == IF contains(o, key) THEN at(o, key).v ELSE ""

\* C10: log_root of a present data_paths is the supplied log_root when
\* that key is present, and otherwise the export_root the same parse
\* resolved: the supplied export_root, or the empty string.
C10_PathDefaultChaining ==
    (Called /\ last.ret /\ contains(Doc, "data_paths")) =>
        LET p == at(Doc, "data_paths")
            paths == cfg.data_paths_config.obj
        IN  /\ paths.export_root = StringOr(p, "export_root")
            /\ paths.log_root =
                   IF contains(p, "log_root") THEN at(p, "log_root").v
                   ELSE paths.export_root

\* {"data_paths": {"export_root": "/out"}}: log_root is "/out"
C10_Witness ==
    /\ Called /\ last.ret /\ contains(Doc, "data_paths")
    /\ ~contains(at(Doc, "data_paths"), "log_root")
    /\ contains(at(Doc, "data_paths"), "export_root")
    /\ cfg.data_paths_config.obj.log_root = "/out"

(***************************************************************************)
(* The empty document.                                                     *)
(***************************************************************************)
\* C11: loading the empty document {} succeeds and leaves all 12
\* domains absent.
C11_EmptyDocument ==
    (Called /\ last.mapped /\ Doc = EmptyDoc) =>
        (last.ret /\ \A k \in DomainKeys : Absent(cfg, k))

\* {} loaded into an object that held all 12 domains
C11_Witness ==
    /\ Called /\ last.mapped /\ Doc = EmptyDoc /\ last.ret
    /\ \A k \in DomainKeys : Present(pre, k)

(***************************************************************************)
(* export: the defaults of file_format and codec.                          *)
(***************************************************************************)
ExportObjects ==
    {ObjOf([file_format |-> f, codec |-> c]) :
        f \in {None, JStr("csv"), JStr("parquet"), JInt(7)},
        c \in {None, JStr("snappy"), JStr(""), JNull}}

ExportDocs ==
    {Obj1("export", e) : e \in ExportObjects}
        \cup {With(FullDoc, "export", e) : e \in ExportObjects}

ExportTexts == {Text(d) : d \in ExportDocs}

ExportFileTexts == {Text(Obj1("export", EmptyObject))}

NextExport == Calls(ExportTexts, Files(ExportFileTexts))

SpecExport == Init /\ [][NextExport]_vars

\* C12: file_format of a present export object is the supplied value, or
\* "parquet" when the key is absent; codec is the supplied value, or
\* "none" when the key is absent.
C12_ExportDefaults ==
    (Called /\ last.mapped /\ contains(Doc, "export")
        /\ is_object(at(Doc, "export"))) =>
        LET ex == at(Doc, "export")
        IN  (\A key \in {"file_format", "codec"} :
                 contains(ex, key) => at(ex, key).t = "string") =>
                /\ last.ret
                /\ cfg.export_config_ptr.obj.file_format =
                       (IF contains(ex, "file_format")
                        THEN at(ex, "file_format").v ELSE "parquet")
                /\ cfg.export_config_ptr.obj.codec =
                       (IF contains(ex, "codec")
                        THEN at(ex, "codec").v ELSE "none")

\* {"export": {}}: file_format is "parquet" and codec is "none"
C12_Witness ==
    /\ Called /\ last.ret /\ Doc = Obj1("export", EmptyObject)
    /\ cfg.export_config_ptr.obj.file_format = "parquet"
    /\ cfg.export_config_ptr.obj.codec = "none"

(***************************************************************************)
(* execution: the declared defaults of its fields.                         *)
(***************************************************************************)
ExecutionObjects ==
    {ObjOf([enable_parallelism |-> a, global_worker_cap |-> b,
            parallelize_assets |-> c, days_per_batch |-> d,
            batch_scaling_factor |-> e]) :
        a \in {None, JBool(FALSE)}, b \in {None, JInt(4)},
        c \in {None, JBool(TRUE)}, d \in {None, JInt(7)},
        e \in {None, JInt(2)}}
        \cup {JObj([greeks_block_size |-> JInt(1), omit_spot_iv |-> JBool(TRUE)]),
              JObj([io_chunk_size |-> JInt(-1)]),
              JObj([days_per_batch |-> JStr("five")])}

ExecutionDocs == {Obj1("execution", e) : e \in ExecutionObjects}

ExecutionTexts == {Text(d) : d \in ExecutionDocs}

ExecutionFileTexts == {Text(Obj1("execution", EmptyObject))}

NextExecution == Calls(ExecutionTexts, Files(ExecutionFileTexts))

SpecExecution == Init /\ [][NextExecution]_vars

\* the JSON type of a supplied value that a field is copied from
ScalarType(type) == IF type = "bool" THEN "boolean" ELSE "number_integer"

\* C13: every field of a present execution object is the supplied value
\* when its key is present and the default declared in struct execution
\* otherwise, so that a supplied key changes no other field; {} gives
\* enable_parallelism = true, global_worker_cap = 10, parallelize_assets
\* = false, days_per_batch = 5, batch_scaling_factor = 4.
C13_ExecutionDefaults ==
    (Called /\ last.mapped /\ contains(Doc, "execution")
        /\ is_object(at(Doc, "execution"))) =>
        LET ex == at(Doc, "execution")
            a == cfg.execution_config.obj
        IN  (\A n \in DOMAIN ex.v :
                 /\ n \in DOMAIN execution_fields
                 /\ ex.v[n].t = ScalarType(execution_fields[n].type)) =>
                /\ last.ret
                /\ DOMAIN a = DOMAIN execution_fields
                /\ \A n \in DOMAIN execution_fields :
                      a[n] = IF contains(ex, n) THEN at(ex, n).v
                             ELSE execution_fields[n].default
                /\ ex = EmptyObject =>
                      /\ a.enable_parallelism = TRUE
                      /\ a.global_worker_cap = 10
                      /\ a.parallelize_assets = FALSE
                      /\ a.days_per_batch = 5
                      /\ a.batch_scaling_factor = 4

\* one key supplied, the others left to their defaults
C13_Witness ==
    /\ Called /\ last.ret
    /\ Doc = Obj1("execution", JObj([global_worker_cap |-> JInt(4)]))
    /\ cfg.execution_config.obj.global_worker_cap = 4
    /\ cfg.execution_config.obj.day_worker_cap = 10
    /\ cfg.execution_config.obj.enable_parallelism = TRUE

(***************************************************************************)
(* Top-level keys that name no domain.                                     *)
(***************************************************************************)
UnknownKeys == {"extra", "Data_Paths", "paths"}

UnknownValues ==
    {JStr("x"), JNull, JArr(<<JInt(1)>>), JObj([export_root |-> JInt(5)])}

\* documents that load, and one that does not
KnownDocs ==
    {EmptyDoc, FullDoc, Obj1("logger", EmptyObject),
     With(FullDoc, "export", JObj([file_format |-> JInt(7)]))}

UnknownDocs ==
    KnownDocs
        \cup {With(d, k, v) : d \in KnownDocs, k \in UnknownKeys, v \in UnknownValues}
        \cup {With(With(FullDoc, "extra", JNull), "paths", JStr("x"))}

UnknownTexts == {Text(d) : d \in UnknownDocs}

UnknownFileTexts == {Text(With(FullDoc, "extra", JStr("x")))}

NextUnknown == Calls(UnknownTexts, Files(UnknownFileTexts))

SpecUnknown == Init /\ [][NextUnknown]_vars

\* the document without its keys that name no domain
DomainsOf(doc) ==
    JObj([x \in (DOMAIN doc.v) \cap DomainKeys |-> doc.v[x]])

HasUnknownKey(doc) == is_object(doc) /\ ~(DOMAIN doc.v \subseteq DomainKeys)

\* C14: a top-level key that is not one of the 12 domain names changes
\* neither the outcome of the load nor any domain of the aggregate: the
\* call does what it does on the document without that key.
C14_UnknownKeysIgnored ==
    (Called /\ last.mapped /\ HasUnknownKey(Doc)) =>
        SameOutcomeAs(DomainsOf(Doc))

\* a document of all 12 domains and an unknown key, loaded successfully
\* into an object that held other values
C14_Witness ==
    /\ Called /\ last.ret /\ HasUnknownKey(Doc)
    /\ \A k \in DomainKeys : contains(Doc, k) /\ Present(cfg, k)
    /\ \E k \in DomainKeys : Absent(pre, k)
    /\ loaded /\ loads = 2

(***************************************************************************)
(* Several calls on one object.                                            *)
(***************************************************************************)
\* C15 as stated: once a load has returned success, no later operation,
\* a further load included, changes the domain values.
C15_ImmutableAfterLoad == [][loaded => cfg' = cfg]_vars

\* C15 as amended: once a load has returned success, the domain values
\* are changed only by a later load that reaches the mapping pass; a
\* later load that fails before it (the file does not open, the text is
\* not valid JSON) leaves every domain value as it was.
C15_ChangedOnlyByMapping ==
    (Called /\ loaded /\ ~last.mapped) => (~last.ret /\ cfg = pre)

\* a file that does not open, after a load that succeeded and left values
C15_Witness ==
    /\ loaded /\ last.op = "load_from_file" /\ ~last.is_open
    /\ \E k \in DomainKeys : Present(cfg, k)

\* the last call made again on the object c
SameCallOn(c) ==
    IF last.op = "load_from_string" THEN string_outcome(c, last.text)
    ELSE file_outcome(c, [is_open |-> last.is_open, text |-> last.text])

\* C16: the same document loaded a second time into the same object, or
\* into another object, gives the same return value and, when the load
\* succeeds, an aggregate equal field for field, with the same domains
\* present; the second load into the same object changes nothing.
C16_Idempotence ==
    Called =>
        /\ SameCallOn(cfg).ret = last.ret
        /\ SameCallOn(cfg).cfg = cfg
        /\ \A other \in FreshConfigs :
              /\ SameCallOn(other).ret = last.ret
              /\ last.ret => SameCallOn(other).cfg = cfg

\* a document of all 12 domains loaded into an object that held other
\* values for them
C16_Witness ==
    /\ Called /\ last.ret /\ Doc = FullDoc
    /\ \E k \in DomainKeys : Present(pre, k) /\ pre[FieldOf[k]] # cfg[FieldOf[k]]
    /\ pre \notin FreshConfigs

\* the position of the first ill-typed domain of a document
IllTyped(doc, i) ==
    /\ contains(doc, DomainOrder[i])
    /\ at(doc, DomainOrder[i]) \in BadValues[DomainOrder[i]]

FirstIllTyped(doc) ==
    CHOOSE i \in DOMAIN DomainOrder :
        IllTyped(doc, i) /\ \A h \in 1..(i - 1) : ~IllTyped(doc, h)

\* C17: the domains are mapped in the order of DomainOrder; when the
\* mapping of the k-th raises an error the call returns failure, the
\* members of the k-th and of every later domain are as before the call,
\* and those of the earlier domains are the ones of the document.
C17_FrameOnMappingFailure ==
    (Called /\ last.mapped /\ \E i \in DOMAIN DomainOrder : IllTyped(Doc, i)) =>
        LET k == FirstIllTyped(Doc)
        IN  /\ ~last.ret
            /\ \A i \in k..Len(DomainOrder) :
                  cfg[FieldOf[DomainOrder[i]]] = pre[FieldOf[DomainOrder[i]]]
            /\ \A i \in 1..(k - 1) :
                  /\ contains(Doc, DomainOrder[i]) => Present(cfg, DomainOrder[i])
                  /\ ~contains(Doc, DomainOrder[i]) => Absent(cfg, DomainOrder[i])

\* two ill-typed domains, logger the first, in a document without
\* data_paths, loaded into an object that held all 12 domains
C17_Witness ==
    /\ Called /\ last.mapped /\ ~last.ret
    /\ Doc = Without(Without(TwoBad, "data_paths"), "preprocessing")
    /\ \A k \in DomainKeys : Present(pre, k)
    /\ Absent(cfg, "data_paths") /\ Absent(cfg, "preprocessing")
    /\ Present(cfg, "logger") /\ Present(cfg, "market_constants")

\* C18: after a call that returned success every domain is the one of
\* the document of that call alone: absent when its key is absent,
\* whatever the object held, and otherwise the mapping of its value.
C18_NoCarryOver ==
    (Called /\ last.ret) =>
        \A k \in DomainKeys :
            IF contains(Doc, k)
            THEN cfg[FieldOf[k]] = new(map_domain(k, at(Doc, k)).v)
            ELSE Absent(cfg, k)

\* a second successful load, of a document that lacks a domain the
\* object held and gives another value to one it held
C18_Witness ==
    /\ Called /\ last.ret /\ loaded /\ loads = 2
    /\ \E k \in DomainKeys : Present(pre, k) /\ ~contains(Doc, k)
    /\ \E k \in DomainKeys :
          Present(pre, k) /\ Present(cfg, k) /\ pre[FieldOf[k]] # cfg[FieldOf[k]]
====
